---- MODULE Spec2Model ----
(***************************************************************************)
(* Model of src/main.py: a Streamlit chat page.  Every user interaction    *)
(* re-executes the script from the top; st.session_state (chat_history,    *)
(* thread_id) survives between executions, script locals do not.  The      *)
(* OpenAI client (threads, messages, runs, speech) is the environment: a   *)
(* call either returns or raises, and an uncaught exception ends the       *)
(* script execution where it is raised.                                    *)
(*                                                                         *)
(* Text is a sequence of one-character strings.  The three non-ASCII       *)
(* characters of the citation pattern are written with ASCII stand-ins:    *)
(*   "[" for U+3010, "+" for U+2020, "]" for U+3011.                       *)
(***************************************************************************)
EXTENDS Integers, Sequences, FiniteSets, TLC

VARIABLES chat_history, thread_id, user_query, speech_on, voice_bot,
          assistant_reply, assistant_reply_box, received, pc, last_run,
          create_calls, threads, messages, runs, speech_calls,
          inputs, emitted

vars == <<chat_history, thread_id, user_query, speech_on, voice_bot,
          assistant_reply, assistant_reply_box, received, pc, last_run,
          create_calls, threads, messages, runs, speech_calls,
          inputs, emitted>>

\* ---- bounds of the exploration ----
MaxInputs == 2
MaxEvents == 2

\* ---- absent values ----
NoThread == 0
NoQuery == <<>>

\* ---- sample inputs ----
Queries == {<<"h", "i">>, <<"b", "a", "l">>}
Voices == {"alloy"}

Greeting == <<"H", "e", "l", "l", "o">>

\* ---- the citation pattern of clean_response ----
Digits == {"0", "1", "2", "3", "4", "5", "6", "7", "8", "9"}
MarkerOpen == "["
MarkerTail == <<"+", "s", "o", "u", "r", "c", "e", "]">>

RECURSIVE DigitsEnd(_, _)
\* index just after the longest run of digits of t starting at i  (\d+ is greedy)
DigitsEnd(t, i) ==
    IF i <= Len(t) /\ t[i] \in Digits THEN DigitsEnd(t, i + 1) ELSE i

HasLiteral(t, i, lit) ==
    /\ i + Len(lit) - 1 <= Len(t)
    /\ SubSeq(t, i, i + Len(lit) - 1) = lit

\* index just after a match of the pattern that starts at i, 0 when none
MatchAt(t, i) ==
    IF i <= Len(t) /\ t[i] = MarkerOpen
    THEN LET d1 == DigitsEnd(t, i + 1)
         IN IF d1 > i + 1 /\ d1 <= Len(t) /\ t[d1] = ":"
            THEN LET d2 == DigitsEnd(t, d1 + 1)
                 IN IF d2 > d1 + 1 /\ HasLiteral(t, d2, MarkerTail)
                    THEN d2 + Len(MarkerTail)
                    ELSE 0
            ELSE 0
    ELSE 0

RECURSIVE SubFrom(_, _)
\* re.sub(pattern, "", t) from position i: leftmost non-overlapping matches, one pass
SubFrom(t, i) ==
    IF i > Len(t) THEN <<>>
    ELSE LET m == MatchAt(t, i)
         IN IF m > 0 THEN SubFrom(t, m) ELSE <<t[i]>> \o SubFrom(t, i + 1)

clean_response(text) == SubFrom(text, 1)

\* ---- stream events the service can emit ----
Cite == <<"[", "1", ":", "2", "+", "s", "o", "u", "r", "c", "e", "]">>
FragCited == <<"a">> \o Cite \o <<"b">>
FragHead == <<"a", "[", "1", ":">>
FragTail == <<"2", "+", "s", "o", "u", "r", "c", "e", "]", "b">>
FragNested == <<"[", "1", ":">> \o Cite \o <<"2", "+", "s", "o", "u", "r", "c", "e", "]">>
FragmentPool == {<<>>, FragCited, FragHead, FragTail, FragNested}

\* has_text = FALSE is a block whose text attribute is None
TextDelta(v) == [type |-> "thread.message.delta", content |-> <<[kind |-> "text", has_text |-> TRUE, value |-> v]>>]
TextDeltaNoText == [type |-> "thread.message.delta", content |-> <<[kind |-> "text", has_text |-> FALSE, value |-> <<>>]>>]
ImageDelta == [type |-> "thread.message.delta", content |-> <<[kind |-> "image_file", has_text |-> FALSE, value |-> <<>>]>>]
EmptyDelta == [type |-> "thread.message.delta", content |-> <<>>]
OtherEvent == [type |-> "thread.run.step", content |-> <<>>]

StreamEvents == {TextDelta(f) : f \in FragmentPool} \cup {TextDeltaNoText, ImageDelta, EmptyDelta, OtherEvent}

\* the two conditions of lines 167-170
IsTextDelta(e) ==
    /\ e.type = "thread.message.delta"
    /\ e.content # <<>>
    /\ e.content[1].kind = "text"

Turn(r, c) == [role |-> r, content |-> c]

Init ==
    /\ chat_history = <<Turn("assistant", Greeting)>>
    /\ thread_id = NoThread
    /\ user_query = NoQuery
    /\ speech_on = FALSE
    /\ voice_bot = "alloy"
    /\ assistant_reply = <<>>
    /\ assistant_reply_box = <<>>
    /\ received = <<>>
    /\ pc = "idle"
    /\ last_run = "none"
    /\ create_calls = 0
    /\ threads = 0
    /\ messages = <<>>
    /\ runs = <<>>
    /\ speech_calls = <<>>
    /\ inputs = 0
    /\ emitted = 0

\* an uncaught exception: the script execution ends where it is
Abort(where) ==
    /\ pc' = "idle"
    /\ last_run' = where

\* a rerun caused by a sidebar widget: chat_input returns None, nothing is handled
Rerun(sp, v) ==
    /\ pc = "idle"
    /\ speech_on' = sp
    /\ voice_bot' = v
    /\ user_query' = NoQuery
    /\ last_run' = "none"
    /\ UNCHANGED <<chat_history, thread_id, assistant_reply, assistant_reply_box,
                   received, pc, create_calls, threads, messages, runs,
                   speech_calls, inputs, emitted>>

SubmitQueryWhileStreaming(q, sp, v) ==
    /\ pc \in {"idle", "stream"}
    /\ inputs < MaxInputs
    /\ inputs' = inputs + 1
    /\ user_query' = q
    /\ speech_on' = sp
    /\ voice_bot' = v
    /\ pc' = "ensure_thread"
    /\ last_run' = "running"
    /\ UNCHANGED <<chat_history, thread_id, assistant_reply, assistant_reply_box,
                   received, create_calls, threads, messages, runs, speech_calls, emitted>>

\* the user submits a prompt: the script is executed with user_query = q
SubmitQuery(q, sp, v) ==
    /\ pc = "idle"
    /\ inputs < MaxInputs
    /\ inputs' = inputs + 1
    /\ user_query' = q
    /\ speech_on' = sp
    /\ voice_bot' = v
    /\ pc' = "ensure_thread"
    /\ last_run' = "running"
    /\ UNCHANGED <<chat_history, thread_id, assistant_reply, assistant_reply_box,
                   received, create_calls, threads, messages, runs, speech_calls, emitted>>

\* lines 142-144, the call returns
CreateThread ==
    /\ pc = "ensure_thread"
    /\ thread_id = NoThread
    /\ create_calls' = create_calls + 1
    /\ threads' = threads + 1
    /\ thread_id' = threads + 1
    /\ pc' = "append_user"
    /\ UNCHANGED <<chat_history, user_query, speech_on, voice_bot, assistant_reply,
                   assistant_reply_box, received, last_run, messages, runs,
                   speech_calls, inputs, emitted>>

\* lines 142-143, the call raises
CreateThreadFails ==
    /\ pc = "ensure_thread"
    /\ thread_id = NoThread
    /\ create_calls' = create_calls + 1
    /\ Abort("thread_error")
    /\ UNCHANGED <<chat_history, thread_id, user_query, speech_on, voice_bot,
                   assistant_reply, assistant_reply_box, received, threads, messages,
                   runs, speech_calls, inputs, emitted>>

ThreadRecreated ==
    /\ pc = "ensure_thread"
    /\ thread_id # NoThread
    /\ create_calls' = create_calls + 1
    /\ threads' = threads + 1
    /\ thread_id' = threads + 1
    /\ pc' = "append_user"
    /\ UNCHANGED <<chat_history, user_query, speech_on, voice_bot, assistant_reply,
                   assistant_reply_box, received, last_run, messages, runs,
                   speech_calls, inputs, emitted>>

\* line 142, the id is in the session state
ThreadExists ==
    /\ pc = "ensure_thread"
    /\ thread_id # NoThread
    /\ pc' = "append_user"
    /\ UNCHANGED <<chat_history, thread_id, user_query, speech_on, voice_bot,
                   assistant_reply, assistant_reply_box, received, last_run,
                   create_calls, threads, messages, runs, speech_calls, inputs, emitted>>

\* lines 146-148
AppendUser ==
    /\ pc = "append_user"
    /\ chat_history' = Append(chat_history, Turn("user", user_query))
    /\ pc' = "send"
    /\ UNCHANGED <<thread_id, user_query, speech_on, voice_bot, assistant_reply,
                   assistant_reply_box, received, last_run, create_calls, threads,
                   messages, runs, speech_calls, inputs, emitted>>

\* lines 150-154, the call returns
SendMessage ==
    /\ pc = "send"
    /\ messages' = Append(messages, [thread_id |-> thread_id, role |-> "user", content |-> user_query])
    /\ pc' = "run"
    /\ UNCHANGED <<chat_history, thread_id, user_query, speech_on, voice_bot,
                   assistant_reply, assistant_reply_box, received, last_run,
                   create_calls, threads, runs, speech_calls, inputs, emitted>>

\* lines 150-154, the call raises
SendMessageFails ==
    /\ pc = "send"
    /\ Abort("send_error")
    /\ UNCHANGED <<chat_history, thread_id, user_query, speech_on, voice_bot,
                   assistant_reply, assistant_reply_box, received, create_calls,
                   threads, messages, runs, speech_calls, inputs, emitted>>

\* lines 157-164, the call returns a stream
StartRun ==
    /\ pc = "run"
    /\ runs' = Append(runs, thread_id)
    /\ assistant_reply_box' = <<>>
    /\ assistant_reply' = <<>>
    /\ received' = <<>>
    /\ pc' = "stream"
    /\ UNCHANGED <<chat_history, thread_id, user_query, speech_on, voice_bot,
                   last_run, create_calls, threads, messages, speech_calls,
                   inputs, emitted>>

\* lines 157-161, the call raises
StartRunFails ==
    /\ pc = "run"
    /\ Abort("run_error")
    /\ UNCHANGED <<chat_history, thread_id, user_query, speech_on, voice_bot,
                   assistant_reply, assistant_reply_box, received, create_calls,
                   threads, messages, runs, speech_calls, inputs, emitted>>

AccumulateRaw(reply, value) == reply \o value
AccumulateRescrubbed(reply, value) == clean_response(reply \o value)
ShownAppended(box, reply) == box \o reply

\* lines 171-173
Accumulate(reply, value) == reply \o clean_response(value)
\* line 174: markdown() on the placeholder replaces what it shows
Shown(box, reply) == reply

\* lines 166-174, one iteration of the loop on a text delta
ConsumeText(e) ==
    /\ pc = "stream"
    /\ emitted < MaxEvents
    /\ IsTextDelta(e)
    /\ e.content[1].has_text
    /\ emitted' = emitted + 1
    /\ received' = Append(received, e.content[1].value)
    /\ assistant_reply' = Accumulate(assistant_reply, e.content[1].value)
    /\ assistant_reply_box' = Shown(assistant_reply_box, assistant_reply')
    /\ UNCHANGED <<chat_history, thread_id, user_query, speech_on, voice_bot, pc,
                   last_run, create_calls, threads, messages, runs, speech_calls, inputs>>

\* lines 166-170, one iteration of the loop on any other event
SkipEvent(e) ==
    /\ pc = "stream"
    /\ emitted < MaxEvents
    /\ ~IsTextDelta(e)
    /\ emitted' = emitted + 1
    /\ UNCHANGED <<received, chat_history, thread_id, user_query, speech_on, voice_bot,
                   assistant_reply, assistant_reply_box, pc, last_run, create_calls,
                   threads, messages, runs, speech_calls, inputs>>

\* lines 171-173 on a text block whose text is None: the attribute access raises
ConsumeNoText(e) ==
    /\ pc = "stream"
    /\ emitted < MaxEvents
    /\ IsTextDelta(e)
    /\ ~e.content[1].has_text
    /\ emitted' = emitted + 1
    /\ Abort("stream_error")
    /\ UNCHANGED <<received, chat_history, thread_id, user_query, speech_on, voice_bot,
                   assistant_reply, assistant_reply_box, create_calls, threads,
                   messages, runs, speech_calls, inputs>>

\* line 166, the iterator raises
StreamFails ==
    /\ pc = "stream"
    /\ Abort("stream_error")
    /\ UNCHANGED <<chat_history, thread_id, user_query, speech_on, voice_bot,
                   assistant_reply, assistant_reply_box, received, create_calls,
                   threads, messages, runs, speech_calls, inputs, emitted>>

StreamEndAlwaysSpeaks ==
    /\ pc = "stream"
    /\ pc' = "speech"
    /\ UNCHANGED <<chat_history, thread_id, user_query, speech_on, voice_bot,
                   assistant_reply, assistant_reply_box, received, last_run,
                   create_calls, threads, messages, runs, speech_calls, inputs, emitted>>

\* line 166 the iterator is exhausted, line 176
StreamEnd ==
    /\ pc = "stream"
    /\ pc' = IF speech_on THEN "speech" ELSE "append_assistant"
    /\ UNCHANGED <<chat_history, thread_id, user_query, speech_on, voice_bot,
                   assistant_reply, assistant_reply_box, received, last_run,
                   create_calls, threads, messages, runs, speech_calls, inputs, emitted>>

SpeechCall(ok) == [turn |-> inputs, text |-> assistant_reply, voice |-> voice_bot, ok |-> ok]

\* lines 176-178 and 32-56, the synthesis returns and the audio is embedded
TextToSpeech ==
    /\ pc = "speech"
    /\ speech_calls' = Append(speech_calls, SpeechCall(TRUE))
    /\ pc' = "append_assistant"
    /\ UNCHANGED <<chat_history, thread_id, user_query, speech_on, voice_bot,
                   assistant_reply, assistant_reply_box, received, last_run,
                   create_calls, threads, messages, runs, inputs, emitted>>

\* lines 176-178 and 40-45, the synthesis raises
TextToSpeechFails ==
    /\ pc = "speech"
    /\ speech_calls' = Append(speech_calls, SpeechCall(FALSE))
    /\ Abort("speech_error")
    /\ UNCHANGED <<chat_history, thread_id, user_query, speech_on, voice_bot,
                   assistant_reply, assistant_reply_box, received, create_calls,
                   threads, messages, runs, inputs, emitted>>

AppendAssistantOverwrites ==
    /\ pc = "append_assistant"
    /\ chat_history' = <<Turn("user", user_query), Turn("assistant", assistant_reply)>>
    /\ pc' = "idle"
    /\ last_run' = "done"
    /\ UNCHANGED <<thread_id, user_query, speech_on, voice_bot, assistant_reply,
                   assistant_reply_box, received, create_calls, threads, messages,
                   runs, speech_calls, inputs, emitted>>

\* lines 180-182, the end of the script
AppendAssistant ==
    /\ pc = "append_assistant"
    /\ chat_history' = Append(chat_history, Turn("assistant", assistant_reply))
    /\ pc' = "idle"
    /\ last_run' = "done"
    /\ UNCHANGED <<thread_id, user_query, speech_on, voice_bot, assistant_reply,
                   assistant_reply_box, received, create_calls, threads, messages,
                   runs, speech_calls, inputs, emitted>>

Next ==
    \/ \E sp \in BOOLEAN, v \in Voices : Rerun(sp, v)
    \/ \E q \in Queries, sp \in BOOLEAN, v \in Voices : SubmitQuery(q, sp, v)
    \/ CreateThread
    \/ CreateThreadFails
    \/ ThreadExists
    \/ AppendUser
    \/ SendMessage
    \/ SendMessageFails
    \/ StartRun
    \/ StartRunFails
    \/ \E e \in StreamEvents : ConsumeText(e)
    \/ \E e \in StreamEvents : SkipEvent(e)
    \/ \E e \in StreamEvents : ConsumeNoText(e)
    \/ StreamFails
    \/ StreamEnd
    \/ TextToSpeech
    \/ TextToSpeechFails
    \/ AppendAssistant

Spec == Init /\ [][Next]_vars

\* ---- helpers of the properties ----
RECURSIVE ScrubConcat(_)
ScrubConcat(fs) ==
    IF fs = <<>> THEN <<>> ELSE clean_response(Head(fs)) \o ScrubConcat(Tail(fs))

Last(s) == s[Len(s)]
IsPrefix(s, t) == Len(s) <= Len(t) /\ SubSeq(t, 1, Len(s)) = s
Contains(s, sub) ==
    \E j \in 1..(Len(s) - Len(sub) + 1) : SubSeq(s, j, j + Len(sub) - 1) = sub
IsMarker(s) == Len(s) > 0 /\ MatchAt(s, 1) = Len(s) + 1
\* the texts made of a non-empty end of f and a non-empty start of g that are a marker
SplitMarkers(f, g) ==
    {SubSeq(f, Len(f) - k + 1, Len(f)) \o SubSeq(g, 1, m) :
        <<k, m>> \in {km \in (1..Len(f)) \X (1..Len(g)) :
                        /\ f[Len(f) - km[1] + 1] = MarkerOpen
                        /\ IsMarker(SubSeq(f, Len(f) - km[1] + 1, Len(f)) \o SubSeq(g, 1, km[2]))}}
UserTurns(h) == Cardinality({i \in 1..Len(h) : h[i].role = "user"})
ConversationFailures == {"thread_error", "send_error", "run_error", "stream_error"}
Completed == pc = "idle" /\ last_run = "done"
StreamDrained == pc \in {"speech", "append_assistant"} \/ Completed

\* C1: once the stream of a turn is drained, the accumulator and the shown text
\* are the concatenation, in arrival order, of clean_response of each text
\* fragment received in the turn, and the assistant Turn appended at the end of
\* the turn has exactly that content (the empty text when no fragment came).
C1_ScrubbedConcatenation ==
    /\ StreamDrained =>
        /\ assistant_reply = ScrubConcat(received)
        /\ assistant_reply_box = ScrubConcat(received)
    /\ Completed => Last(chat_history) = Turn("assistant", ScrubConcat(received))
    /\ (Completed /\ received = <<>>) => Last(chat_history).content = <<>>

C1_Witness ==
    /\ Completed
    /\ received = <<FragCited, FragTail>>
    /\ Last(chat_history).content = <<"a", "b">> \o FragTail

\* C2 as stated: the thread-creation call is made at most once in a session,
\* and every send and run uses the stored thread id.
C2_CreateCalledAtMostOnce ==
    /\ create_calls <= 1
    /\ \A i \in 1..Len(messages) : messages[i].thread_id = thread_id
    /\ \A i \in 1..Len(runs) : runs[i] = thread_id

\* C2 amended: at most one thread is created in a session; once a thread id is
\* stored it never changes and no further creation call is made; every send and
\* run uses the stored id.  (A creation call that raises stores nothing, and
\* the next input calls creation again.)
C2_OneThreadPerSession ==
    /\ [](/\ threads <= 1
          /\ thread_id = threads
          /\ \A i \in 1..Len(messages) : messages[i].thread_id = thread_id /\ thread_id # NoThread
          /\ \A i \in 1..Len(runs) : runs[i] = thread_id /\ thread_id # NoThread)
    /\ [][thread_id # NoThread =>
            /\ thread_id' = thread_id
            /\ create_calls' = create_calls
            /\ threads' = threads]_vars

C2_Witness ==
    /\ inputs = 2
    /\ thread_id # NoThread
    /\ create_calls = 2
    /\ Len(runs) = 1

\* C3 as stated: after a turn ended by a failing ConversationService call, the
\* transcript ends with the user's Turn of that input (and no assistant Turn).
C3_FailureKeepsUserTurn ==
    (pc = "idle" /\ last_run \in ConversationFailures) =>
        Last(chat_history) = Turn("user", user_query)

\* C4 as stated: after a turn ended by a failing speech synthesis, the assembled
\* reply is the assistant Turn at the end of the transcript.
C4_SpeechFailureKeepsReply ==
    (pc = "idle" /\ last_run = "speech_error") =>
        Last(chat_history) = Turn("assistant", assistant_reply)

\* C5: the transcript only grows by one Turn appended at its end; a completed
\* cycle leaves, at the end of the transcript, the user Turn of its input and
\* then the assistant Turn of its reply; there is at most one user Turn per
\* input and every assistant Turn directly follows a user Turn.
C5_AppendOnlyPairs ==
    /\ [](/\ Completed =>
               /\ Len(chat_history) >= 3
               /\ chat_history[Len(chat_history) - 1] = Turn("user", user_query)
               /\ Last(chat_history) = Turn("assistant", assistant_reply)
          /\ chat_history[1] = Turn("assistant", Greeting)
          /\ UserTurns(chat_history) <= inputs
          /\ \A i \in 2..Len(chat_history) :
                chat_history[i].role = "assistant" => chat_history[i - 1].role = "user")
    /\ [][/\ IsPrefix(chat_history, chat_history')
          /\ Len(chat_history') <= Len(chat_history) + 1
          /\ (last_run' = "done" /\ last_run # "done") =>
                /\ Len(chat_history') = Len(chat_history) + 1
                /\ Last(chat_history).role = "user"]_vars

C5_Witness ==
    /\ Completed
    /\ inputs = 2
    /\ Len(chat_history) = 5
    /\ chat_history[2] # chat_history[4]

\* C6 as stated: clean_response is idempotent on every fragment it is given.
C6_ScrubIdempotent ==
    \A i \in 1..Len(received) :
        clean_response(clean_response(received[i])) = clean_response(received[i])

\* C7: when a marker is split over the end of one fragment and the start of the
\* next, the accumulated reply contains the whole marker.
C7_SplitMarkerKept ==
    \A i \in 1..(Len(received) - 1) :
        \A mk \in SplitMarkers(received[i], received[i + 1]) :
            Contains(assistant_reply, mk)

C7_Witness ==
    /\ pc = "stream"
    /\ received = <<FragHead, FragTail>>
    /\ Contains(assistant_reply, Cite)

\* C8: while the stream is consumed the shown text equals the accumulator, and
\* an event that is not a usable text delta changes neither of them.
C8_ShownIsAccumulator ==
    /\ [](pc \in {"stream", "speech", "append_assistant"} =>
            assistant_reply_box = assistant_reply)
    /\ [][(pc = "stream" /\ emitted' # emitted /\ received' = received) =>
            /\ assistant_reply' = assistant_reply
            /\ assistant_reply_box' = assistant_reply_box]_vars

C8_Witness ==
    /\ pc = "stream"
    /\ Len(received) = 2
    /\ received[1] # <<>>
    /\ received[2] # <<>>
    /\ assistant_reply_box = assistant_reply

CalledThisTurn == \E i \in 1..Len(speech_calls) : speech_calls[i].turn = inputs
C10_SpeechAfterStream ==
    [][/\ speech_calls' # speech_calls =>
            /\ speech_on
            /\ pc = "speech"
            /\ ~CalledThisTurn
            /\ speech_calls' = Append(speech_calls, Last(speech_calls'))
            /\ Last(speech_calls').turn = inputs
            /\ Last(speech_calls').text = ScrubConcat(received)
            /\ chat_history' = chat_history
            /\ Last(chat_history) = Turn("user", user_query)
       /\ (received' # received /\ received' # <<>>) => ~CalledThisTurn
       /\ (Len(chat_history') > Len(chat_history) /\ Last(chat_history').role = "assistant") =>
            /\ speech_on <=> CalledThisTurn
            /\ CalledThisTurn => Last(speech_calls).ok /\ Last(speech_calls).turn = inputs]_vars

C10_Witness ==
    /\ Completed
    /\ speech_on
    /\ Len(received) = 2
    /\ Len(speech_calls) = 1
    /\ Last(speech_calls).text = assistant_reply
    /\ assistant_reply # <<>>
====
